---------------------------- MODULE Spec2Model ----------------------------
(***************************************************************************)
(* CareerMate (app.py): the intent classifier, the response catalog, the   *)
(* chunked translator and the chat endpoint with its exchange log.         *)
(*                                                                         *)
(* A text is the tuple of its Unicode code points (Python's str is a       *)
(* sequence of code points, and len() counts them), so newline is 10,      *)
(* space 32, '.' 46, '|' 124 and the bullet 8226.                          *)
(***************************************************************************)
EXTENDS Integers, Sequences, FiniteSets, TLC

VARIABLES
  chats,     \* rows of table chats (app.py 38-43), oldest first
  handled,   \* number of calls the program has finished handling
  request,   \* the call being answered: its arguments
  response,  \* what that call returned to its caller
  sent,      \* the exchanges with the translation service during that call
  db         \* how the last write to table chats ended

vars == <<chats, handled, request, response, sent, db>>

----------------------------------------------------------------------------
(* Characters the code names.                                              *)

NL == 10
Space == 32
Period == 46
Pipe == 124
Bullet == 8226

\* The threshold of translate_text_smart (app.py 83, 93, 101, 114).
Threshold == 250

\* str.isspace(): the characters str.strip() removes and str.split() splits on.
Whitespace ==
  (9..13) \cup (28..32) \cup {133, 160, 5760} \cup (8192..8202)
    \cup {8232, 8233, 8239, 8287, 12288}

----------------------------------------------------------------------------
(* Python's str operations, on tuples of code points.                      *)

\* s[i:] for a 1-based i.
From(s, i) == SubSeq(s, i, Len(s))

\* str.lower() of one character of the alphabet the messages are drawn from:
\* 'A'..'Z' map to 'a'..'z'; the Indic letters of the keyword lists have no case.
LowerChar(c) == IF c \in 65..90 THEN c + 32 ELSE c

\* str.lower()
Lower(s) == [i \in 1..Len(s) |-> LowerChar(s[i])]

\* Whether sub occurs in s at position i.
OccursAt(sub, s, i) == \A j \in 1..Len(sub) : s[i + j - 1] = sub[j]

\* sub in s
Contains(s, sub) == \E i \in 1..(Len(s) - Len(sub) + 1) : OccursAt(sub, s, i)

\* str.strip(): drop the leading and the trailing whitespace.
Strip(s) ==
  LET n == Len(s)
  IN IF \A i \in 1..n : s[i] \in Whitespace THEN << >>
     ELSE LET first == CHOOSE i \in 1..n :
                         s[i] \notin Whitespace /\ \A j \in 1..(i - 1) : s[j] \in Whitespace
              last == CHOOSE i \in 1..n :
                        s[n + 1 - i] \notin Whitespace
                        /\ \A j \in 1..(i - 1) : s[n + 1 - j] \in Whitespace
          IN SubSeq(s, first, n + 1 - last)

\* s.split(sep) for a non-empty sep: the pieces between the leftmost
\* non-overlapping occurrences of sep; [s] when there is none.
RECURSIVE Split(_, _)
Split(s, sep) ==
  LET m == Len(s) - Len(sep) + 1
  IN IF \A i \in 1..m : ~OccursAt(sep, s, i) THEN <<s>>
     ELSE LET i == CHOOSE i \in 1..m :
                     OccursAt(sep, s, i) /\ \A j \in 1..(i - 1) : ~OccursAt(sep, s, j)
          IN <<SubSeq(s, 1, i - 1)>> \o Split(From(s, i + Len(sep)), sep)

\* sep.join(parts)
RECURSIVE Join(_, _)
Join(sep, parts) ==
  IF parts = << >> THEN << >>
  ELSE IF Len(parts) = 1 THEN parts[1]
  ELSE parts[1] \o sep \o Join(sep, Tail(parts))

\* ''.join(parts)
Concat(parts) == Join(<< >>, parts)

\* s.split(): the maximal runs of non-whitespace characters, in order.
RECURSIVE SplitWhitespace(_)
SplitWhitespace(s) ==
  LET n == Len(s)
  IN IF \A i \in 1..n : s[i] \in Whitespace THEN << >>
     ELSE LET a == CHOOSE i \in 1..n :
                     s[i] \notin Whitespace /\ \A j \in 1..(i - 1) : s[j] \in Whitespace
              b == CHOOSE i \in a..n :
                     (i = n \/ s[i + 1] \in Whitespace)
                     /\ \A j \in a..i : s[j] \notin Whitespace
          IN <<SubSeq(s, a, b)>> \o SplitWhitespace(From(s, b + 1))

\* s.replace('. ', '.|'): the two characters of the pattern differ, so its
\* occurrences never overlap and each space that follows a period becomes '|'.
ReplacePeriodSpace(s) ==
  [i \in 1..Len(s) |->
     IF i > 1 /\ s[i] = Space /\ s[i - 1] = Period THEN Pipe ELSE s[i]]

----------------------------------------------------------------------------
(* Intent Classifier: detect_intent_multilingual (app.py 136-190).         *)

\* greeting_words (app.py lines 141-145); each keyword is the tuple of its code points.
greeting_words ==
  << <<104, 105>>,  \* hi
     <<104, 101, 108, 108, 111>>,  \* hello
     <<104, 101, 121>>,  \* hey
     <<115, 116, 97, 114, 116>>,  \* start
     <<110, 97, 109, 97, 115, 116, 101>>,  \* namaste
     <<110, 97, 109, 97, 115, 107, 97, 114>>,  \* namaskar
     <<104, 111, 108, 97>>,  \* hola
     <<98, 111, 110, 106, 111, 117, 114>>,  \* bonjour
     <<2344, 2350, 2360, 2381, 2340, 2375>>,
     <<2344, 2350, 2360, 2381, 2325, 2366, 2352>>,
     <<2616, 2596, 32, 2616, 2637, 2608, 2624, 32, 2565, 2581, 2622, 2610>>,
     <<2600, 2606, 2616, 2581, 2622, 2608>>,
     <<3240, 3246, 3256, 3277, 3221, 3262, 3248>>,
     <<3240, 3246, 3256, 3277, 3236, 3270>>,
     <<118, 97, 110, 97, 107, 107, 97, 109>>,  \* vanakkam
     <<97, 100, 97, 97, 98>> >>  \* adaab

\* salary_words (app.py lines 147-151); each keyword is the tuple of its code points.
salary_words ==
  << <<115, 97, 108, 97, 114, 121>>,  \* salary
     <<112, 97, 121>>,  \* pay
     <<99, 111, 109, 112, 101, 110, 115, 97, 116, 105, 111, 110>>,  \* compensation
     <<109, 111, 110, 101, 121>>,  \* money
     <<101, 97, 114, 110, 105, 110, 103>>,  \* earning
     <<105, 110, 99, 111, 109, 101>>,  \* income
     <<119, 97, 103, 101>>,  \* wage
     <<2357, 2375, 2340, 2344>>,
     <<2340, 2344, 2326, 2381, 2357, 2366, 2361>>,
     <<2346, 2376, 2360, 2366>>,
     <<2325, 2350, 2366, 2312>>,
     <<2596, 2600, 2582, 2622, 2617>>,
     <<2602, 2632, 2616, 2622>>,
     <<2581, 2606, 2622, 2568>>,
     <<3256, 3202, 3244, 3251>>,
     <<3238, 3265, 3233, 3277, 3233, 3265>>,
     <<3221, 3246, 3262, 3247, 3263>>,
     <<2346, 2327, 2366, 2352>>,
     <<2352, 2369, 2346, 2351, 2366>> >>

\* skills_words (app.py lines 153-157); each keyword is the tuple of its code points.
skills_words ==
  << <<115, 107, 105, 108, 108, 115>>,  \* skills
     <<108, 101, 97, 114, 110>>,  \* learn
     <<115, 116, 117, 100, 121>>,  \* study
     <<99, 111, 117, 114, 115, 101>>,  \* course
     <<116, 114, 97, 105, 110, 105, 110, 103>>,  \* training
     <<101, 100, 117, 99, 97, 116, 105, 111, 110>>,  \* education
     <<115, 107, 105, 108, 108>>,  \* skill
     <<2325, 2380, 2358, 2354>>,
     <<2360, 2368, 2326, 2344, 2366>>,
     <<2309, 2343, 2381, 2351, 2351, 2344>>,
     <<2346, 2338, 2364, 2344, 2366>>,
     <<2616, 2623, 2673, 2582, 2595, 2622>>,
     <<2617, 2625, 2600, 2608>>,
     <<2616, 2623, 2673, 2582, 2623, 2566>>,
     <<3221, 3276, 3254, 3250, 3277, 3247>>,
     <<3221, 3250, 3263, 3221, 3270>>,
     <<3205, 3239, 3277, 3247, 3247, 3240>>,
     <<2358, 2367, 2325, 2339, 2375>>,
     <<2325, 2380, 2358, 2354, 2381, 2351>> >>

\* interview_words (app.py lines 159-163); each keyword is the tuple of its code points.
interview_words ==
  << <<105, 110, 116, 101, 114, 118, 105, 101, 119>>,  \* interview
     <<112, 114, 101, 112, 97, 114, 97, 116, 105, 111, 110>>,  \* preparation
     <<113, 117, 101, 115, 116, 105, 111, 110, 115>>,  \* questions
     <<116, 105, 112, 115>>,  \* tips
     <<112, 114, 101, 112>>,  \* prep
     <<113, 117, 101, 115, 116, 105, 111, 110>>,  \* question
     <<2360, 2366, 2325, 2381, 2359, 2366, 2340, 2381, 2325, 2366, 2352>>,
     <<2311, 2306, 2335, 2352, 2357, 2381, 2351, 2370>>,
     <<2346, 2381, 2352, 2358, 2381, 2344>>,
     <<2567, 2672, 2591, 2608, 2613, 2623, 2570>>,
     <<2616, 2613, 2622, 2610>>,
     <<3256, 3202, 3238, 3248, 3277, 3254, 3240>>,
     <<3242, 3277, 3248, 3254, 3277, 3240, 3270>>,
     <<2350, 2369, 2354, 2366, 2326, 2340>> >>

\* job_words (app.py lines 165-169); each keyword is the tuple of its code points.
job_words ==
  << <<106, 111, 98>>,  \* job
     <<99, 97, 114, 101, 101, 114>>,  \* career
     <<119, 111, 114, 107>>,  \* work
     <<101, 109, 112, 108, 111, 121, 109, 101, 110, 116>>,  \* employment
     <<112, 111, 115, 105, 116, 105, 111, 110>>,  \* position
     <<114, 111, 108, 101>>,  \* role
     <<106, 111, 98, 115>>,  \* jobs
     <<2344, 2380, 2325, 2352, 2368>>,
     <<2325, 2366, 2350>>,
     <<2325, 2376, 2352, 2367, 2351, 2352>>,
     <<2352, 2379, 2332, 2327, 2366, 2352>>,
     <<2600, 2636, 2581, 2608, 2624>>,
     <<2581, 2672, 2606>>,
     <<2581, 2608, 2624, 2565, 2608>>,
     <<3221, 3270, 3250, 3256>>,
     <<3240, 3276, 3221, 3248, 3263>>,
     <<3221, 3277, 3247, 3262, 3248, 3263, 3247, 3248, 3277>>,
     <<2325, 2366, 2350>>,
     <<2344, 2379, 2325, 2352, 2368>> >>

\* resume_words (app.py lines 171-174); each keyword is the tuple of its code points.
resume_words ==
  << <<114, 101, 115, 117, 109, 101>>,  \* resume
     <<99, 118>>,  \* cv
     <<98, 105, 111, 100, 97, 116, 97>>,  \* biodata
     <<112, 114, 111, 102, 105, 108, 101>>,  \* profile
     <<98, 105, 111>>,  \* bio
     <<2348, 2366, 2351, 2379, 2337, 2366, 2335, 2366>>,
     <<2352, 2367, 2332, 2381, 2351, 2370, 2350, 2375>>,
     <<2604, 2622, 2567, 2579, 2593, 2622, 2591, 2622>>,
     <<3248, 3270, 3256, 3277, 3247, 3266, 3246, 3270>>,
     <<3244, 3247, 3275, 3233, 3262, 3231, 3262>> >>
\* any(word in message_lower for word in words)
AnyWordIn(words, message_lower) ==
  \E k \in 1..Len(words) : Contains(message_lower, words[k])

Intents == {"greeting", "salary", "skills", "interview", "job", "resume", "default"}

\* A faulty variant, not the program: the salary list is tested before the greeting list.
detect_intent_salary_first(user_message) ==
  LET message_lower == Lower(user_message)
  IN IF AnyWordIn(salary_words, message_lower) THEN "salary"
     ELSE IF AnyWordIn(greeting_words, message_lower) THEN "greeting"
     ELSE IF AnyWordIn(skills_words, message_lower) THEN "skills"
     ELSE IF AnyWordIn(interview_words, message_lower) THEN "interview"
     ELSE IF AnyWordIn(job_words, message_lower) THEN "job"
     ELSE IF AnyWordIn(resume_words, message_lower) THEN "resume"
     ELSE "default"

\* The if/elif chain of app.py 177-190.
detect_intent_multilingual(user_message) ==
  LET message_lower == Lower(user_message)
  IN IF AnyWordIn(greeting_words, message_lower) THEN "greeting"
     ELSE IF AnyWordIn(salary_words, message_lower) THEN "salary"
     ELSE IF AnyWordIn(skills_words, message_lower) THEN "skills"
     ELSE IF AnyWordIn(interview_words, message_lower) THEN "interview"
     ELSE IF AnyWordIn(job_words, message_lower) THEN "job"
     ELSE IF AnyWordIn(resume_words, message_lower) THEN "resume"
     ELSE "default"

----------------------------------------------------------------------------
(* Response Catalog: the templates of get_ai_response (app.py 203-304) and *)
(* generate_smart_suggestions (app.py 318-330).                            *)

\* english_response of intent 'greeting' (app.py lines 204-214), 205 characters.
greeting_response ==
  <<128075, 32, 42, 42, 72, 101, 108, 108, 111, 33, 32, 73, 39, 109, 32, 67, 97, 114, 101, 101,
    114, 77, 97, 116, 101, 33, 42, 42, 10, 10, 73, 32, 104, 101, 108, 112, 32, 119, 105, 116,
    104, 58, 10, 8226, 32, 74, 111, 98, 32, 115, 101, 97, 114, 99, 104, 32, 38, 32, 115, 97,
    108, 97, 114, 105, 101, 115, 10, 8226, 32, 84, 101, 99, 104, 32, 115, 107, 105, 108, 108,
    115, 32, 38, 32, 108, 101, 97, 114, 110, 105, 110, 103, 10, 8226, 32, 73, 110, 116, 101,
    114, 118, 105, 101, 119, 32, 112, 114, 101, 112, 97, 114, 97, 116, 105, 111, 110, 10, 8226,
    32, 82, 101, 115, 117, 109, 101, 32, 111, 112, 116, 105, 109, 105, 122, 97, 116, 105, 111,
    110, 10, 10, 65, 115, 107, 32, 109, 101, 32, 97, 98, 111, 117, 116, 32, 115, 97, 108, 97,
    114, 105, 101, 115, 44, 32, 115, 107, 105, 108, 108, 115, 44, 32, 111, 114, 32, 106, 111,
    98, 115, 33, 10, 10, 87, 104, 97, 116, 32, 99, 97, 110, 32, 73, 32, 104, 101, 108, 112, 32,
    121, 111, 117, 32, 119, 105, 116, 104, 63>>

\* english_response of intent 'salary' (app.py lines 217-230), 360 characters.
salary_response ==
  <<128176, 32, 42, 42, 84, 101, 99, 104, 32, 83, 97, 108, 97, 114, 105, 101, 115, 32, 50, 48,
    50, 52, 45, 50, 48, 50, 53, 42, 42, 10, 10, 42, 42, 83, 111, 102, 116, 119, 97, 114, 101,
    32, 69, 110, 103, 105, 110, 101, 101, 114, 58, 42, 42, 10, 69, 110, 116, 114, 121, 58, 32,
    36, 55, 53, 107, 45, 36, 49, 50, 48, 107, 32, 124, 32, 77, 105, 100, 58, 32, 36, 49, 49, 48,
    107, 45, 36, 49, 56, 48, 107, 32, 124, 32, 83, 101, 110, 105, 111, 114, 58, 32, 36, 49, 54,
    48, 107, 45, 36, 51, 53, 48, 107, 10, 10, 42, 42, 65, 73, 47, 77, 76, 32, 69, 110, 103, 105,
    110, 101, 101, 114, 58, 42, 42, 10, 69, 110, 116, 114, 121, 58, 32, 36, 57, 53, 107, 45, 36,
    49, 51, 48, 107, 32, 124, 32, 77, 105, 100, 58, 32, 36, 49, 52, 48, 107, 45, 36, 50, 48, 48,
    107, 32, 124, 32, 83, 101, 110, 105, 111, 114, 58, 32, 36, 50, 48, 48, 107, 45, 36, 52, 48,
    48, 107, 10, 10, 42, 42, 68, 97, 116, 97, 32, 83, 99, 105, 101, 110, 116, 105, 115, 116, 58,
    42, 42, 10, 69, 110, 116, 114, 121, 58, 32, 36, 56, 53, 107, 45, 36, 49, 50, 48, 107, 32,
    124, 32, 77, 105, 100, 58, 32, 36, 49, 50, 48, 107, 45, 36, 49, 56, 48, 107, 32, 124, 32,
    83, 101, 110, 105, 111, 114, 58, 32, 36, 49, 56, 48, 107, 45, 36, 51, 48, 48, 107, 10, 10,
    42, 42, 76, 111, 99, 97, 116, 105, 111, 110, 32, 98, 111, 111, 115, 116, 58, 42, 42, 32, 83,
    70, 32, 43, 51, 53, 37, 44, 32, 78, 89, 67, 32, 43, 50, 53, 37, 44, 32, 82, 101, 109, 111,
    116, 101, 32, 45, 49, 53, 37, 10, 10, 71, 101, 116, 32, 109, 117, 108, 116, 105, 112, 108,
    101, 32, 111, 102, 102, 101, 114, 115, 32, 97, 110, 100, 32, 110, 101, 103, 111, 116, 105,
    97, 116, 101, 33>>

\* english_response of intent 'skills' (app.py lines 233-245), 364 characters.
skills_response ==
  <<127891, 32, 42, 42, 72, 111, 116, 116, 101, 115, 116, 32, 84, 101, 99, 104, 32, 83, 107,
    105, 108, 108, 115, 32, 50, 48, 50, 52, 45, 50, 48, 50, 53, 42, 42, 10, 10, 42, 42, 80, 114,
    111, 103, 114, 97, 109, 109, 105, 110, 103, 58, 42, 42, 32, 80, 121, 116, 104, 111, 110, 32,
    40, 65, 73, 47, 77, 76, 41, 32, 8226, 32, 74, 97, 118, 97, 83, 99, 114, 105, 112, 116, 32,
    40, 87, 101, 98, 41, 32, 8226, 32, 83, 81, 76, 32, 40, 69, 115, 115, 101, 110, 116, 105, 97,
    108, 41, 10, 10, 42, 42, 65, 73, 47, 77, 76, 58, 42, 42, 32, 67, 104, 97, 116, 71, 80, 84,
    32, 105, 110, 116, 101, 103, 114, 97, 116, 105, 111, 110, 32, 8226, 32, 80, 121, 84, 111,
    114, 99, 104, 32, 8226, 32, 86, 101, 99, 116, 111, 114, 32, 100, 97, 116, 97, 98, 97, 115,
    101, 115, 10, 10, 42, 42, 67, 108, 111, 117, 100, 58, 42, 42, 32, 65, 87, 83, 32, 8226, 32,
    68, 111, 99, 107, 101, 114, 32, 8226, 32, 75, 117, 98, 101, 114, 110, 101, 116, 101, 115,
    10, 10, 42, 42, 76, 101, 97, 114, 110, 105, 110, 103, 32, 112, 108, 97, 110, 58, 42, 42, 32,
    80, 105, 99, 107, 32, 80, 121, 116, 104, 111, 110, 32, 8594, 32, 67, 104, 111, 111, 115,
    101, 32, 65, 73, 47, 87, 101, 98, 47, 67, 108, 111, 117, 100, 32, 8594, 32, 66, 117, 105,
    108, 100, 32, 51, 32, 112, 114, 111, 106, 101, 99, 116, 115, 10, 10, 42, 42, 70, 114, 101,
    101, 32, 114, 101, 115, 111, 117, 114, 99, 101, 115, 58, 42, 42, 32, 102, 114, 101, 101, 67,
    111, 100, 101, 67, 97, 109, 112, 46, 111, 114, 103, 44, 32, 70, 97, 115, 116, 46, 97, 105,
    44, 32, 65, 87, 83, 32, 69, 100, 117, 99, 97, 116, 101, 10, 10, 87, 104, 105, 99, 104, 32,
    97, 114, 101, 97, 32, 105, 110, 116, 101, 114, 101, 115, 116, 115, 32, 121, 111, 117, 63>>

\* english_response of intent 'interview' (app.py lines 248-259), 382 characters.
interview_response ==
  <<127908, 32, 42, 42, 73, 110, 116, 101, 114, 118, 105, 101, 119, 32, 80, 114, 101, 112, 32,
    69, 115, 115, 101, 110, 116, 105, 97, 108, 115, 42, 42, 10, 10, 42, 42, 84, 111, 112, 32,
    51, 32, 113, 117, 101, 115, 116, 105, 111, 110, 115, 58, 42, 42, 10, 49, 46, 32, 34, 84,
    101, 108, 108, 32, 109, 101, 32, 97, 98, 111, 117, 116, 32, 121, 111, 117, 114, 115, 101,
    108, 102, 34, 32, 8594, 32, 80, 114, 101, 115, 101, 110, 116, 32, 43, 32, 73, 109, 112, 97,
    99, 116, 32, 43, 32, 70, 117, 116, 117, 114, 101, 10, 50, 46, 32, 34, 87, 104, 121, 32, 116,
    104, 105, 115, 32, 106, 111, 98, 63, 34, 32, 8594, 32, 82, 101, 115, 101, 97, 114, 99, 104,
    32, 99, 111, 109, 112, 97, 110, 121, 32, 43, 32, 83, 104, 111, 119, 32, 101, 120, 99, 105,
    116, 101, 109, 101, 110, 116, 32, 32, 10, 51, 46, 32, 34, 66, 105, 103, 103, 101, 115, 116,
    32, 119, 101, 97, 107, 110, 101, 115, 115, 63, 34, 32, 8594, 32, 82, 101, 97, 108, 32, 119,
    101, 97, 107, 110, 101, 115, 115, 32, 43, 32, 73, 109, 112, 114, 111, 118, 101, 109, 101,
    110, 116, 32, 43, 32, 82, 101, 115, 117, 108, 116, 115, 10, 10, 42, 42, 84, 101, 99, 104,
    110, 105, 99, 97, 108, 32, 112, 114, 101, 112, 58, 42, 42, 32, 76, 101, 101, 116, 67, 111,
    100, 101, 32, 69, 97, 115, 121, 32, 40, 53, 48, 41, 32, 8594, 32, 77, 101, 100, 105, 117,
    109, 32, 40, 49, 48, 48, 41, 10, 10, 42, 42, 84, 105, 112, 115, 58, 42, 42, 32, 65, 112,
    112, 108, 121, 32, 77, 111, 110, 45, 87, 101, 100, 44, 32, 114, 101, 115, 101, 97, 114, 99,
    104, 32, 105, 110, 116, 101, 114, 118, 105, 101, 119, 101, 114, 44, 32, 112, 114, 101, 112,
    97, 114, 101, 32, 53, 32, 113, 117, 101, 115, 116, 105, 111, 110, 115, 10, 10, 78, 101, 101,
    100, 32, 99, 111, 109, 112, 97, 110, 121, 45, 115, 112, 101, 99, 105, 102, 105, 99, 32, 104,
    101, 108, 112, 63>>

\* english_response of intent 'job' (app.py lines 262-275), 568 characters.
job_response ==
  <<128269, 32, 42, 42, 74, 111, 98, 32, 83, 101, 97, 114, 99, 104, 32, 76, 105, 110, 107, 115,
    42, 42, 10, 10, 42, 42, 65, 73, 47, 77, 76, 32, 74, 111, 98, 115, 58, 42, 42, 10, 91, 65,
    73, 32, 69, 110, 103, 105, 110, 101, 101, 114, 32, 74, 111, 98, 115, 93, 40, 104, 116, 116,
    112, 115, 58, 47, 47, 108, 105, 110, 107, 101, 100, 105, 110, 46, 99, 111, 109, 47, 106,
    111, 98, 115, 47, 115, 101, 97, 114, 99, 104, 47, 63, 107, 101, 121, 119, 111, 114, 100,
    115, 61, 65, 73, 37, 50, 48, 101, 110, 103, 105, 110, 101, 101, 114, 41, 10, 91, 68, 97,
    116, 97, 32, 83, 99, 105, 101, 110, 116, 105, 115, 116, 32, 74, 111, 98, 115, 93, 40, 104,
    116, 116, 112, 115, 58, 47, 47, 108, 105, 110, 107, 101, 100, 105, 110, 46, 99, 111, 109,
    47, 106, 111, 98, 115, 47, 115, 101, 97, 114, 99, 104, 47, 63, 107, 101, 121, 119, 111, 114,
    100, 115, 61, 100, 97, 116, 97, 37, 50, 48, 115, 99, 105, 101, 110, 116, 105, 115, 116, 41,
    10, 10, 42, 42, 83, 111, 102, 116, 119, 97, 114, 101, 32, 74, 111, 98, 115, 58, 42, 42, 10,
    91, 83, 111, 102, 116, 119, 97, 114, 101, 32, 69, 110, 103, 105, 110, 101, 101, 114, 32, 74,
    111, 98, 115, 93, 40, 104, 116, 116, 112, 115, 58, 47, 47, 108, 105, 110, 107, 101, 100,
    105, 110, 46, 99, 111, 109, 47, 106, 111, 98, 115, 47, 115, 101, 97, 114, 99, 104, 47, 63,
    107, 101, 121, 119, 111, 114, 100, 115, 61, 115, 111, 102, 116, 119, 97, 114, 101, 37, 50,
    48, 101, 110, 103, 105, 110, 101, 101, 114, 41, 10, 91, 70, 117, 108, 108, 32, 83, 116, 97,
    99, 107, 32, 68, 101, 118, 101, 108, 111, 112, 101, 114, 32, 74, 111, 98, 115, 93, 40, 104,
    116, 116, 112, 115, 58, 47, 47, 108, 105, 110, 107, 101, 100, 105, 110, 46, 99, 111, 109,
    47, 106, 111, 98, 115, 47, 115, 101, 97, 114, 99, 104, 47, 63, 107, 101, 121, 119, 111, 114,
    100, 115, 61, 102, 117, 108, 108, 37, 50, 48, 115, 116, 97, 99, 107, 37, 50, 48, 100, 101,
    118, 101, 108, 111, 112, 101, 114, 41, 10, 10, 42, 42, 82, 101, 109, 111, 116, 101, 32, 74,
    111, 98, 115, 58, 42, 42, 10, 91, 82, 101, 109, 111, 116, 101, 32, 83, 111, 102, 116, 119,
    97, 114, 101, 32, 74, 111, 98, 115, 93, 40, 104, 116, 116, 112, 115, 58, 47, 47, 108, 105,
    110, 107, 101, 100, 105, 110, 46, 99, 111, 109, 47, 106, 111, 98, 115, 47, 115, 101, 97,
    114, 99, 104, 47, 63, 107, 101, 121, 119, 111, 114, 100, 115, 61, 115, 111, 102, 116, 119,
    97, 114, 101, 37, 50, 48, 101, 110, 103, 105, 110, 101, 101, 114, 38, 108, 111, 99, 97, 116,
    105, 111, 110, 61, 82, 101, 109, 111, 116, 101, 41, 10, 10, 65, 112, 112, 108, 121, 32, 119,
    105, 116, 104, 105, 110, 32, 50, 52, 104, 114, 115, 44, 32, 102, 111, 108, 108, 111, 119,
    32, 117, 112, 32, 105, 110, 32, 49, 32, 119, 101, 101, 107, 33>>

\* english_response of intent 'resume' (app.py lines 278-288), 285 characters.
resume_response ==
  <<128196, 32, 42, 42, 82, 101, 115, 117, 109, 101, 32, 79, 112, 116, 105, 109, 105, 122, 97,
    116, 105, 111, 110, 42, 42, 10, 10, 42, 42, 83, 116, 114, 117, 99, 116, 117, 114, 101, 58,
    42, 42, 32, 72, 101, 97, 100, 101, 114, 32, 8594, 32, 83, 117, 109, 109, 97, 114, 121, 32,
    8594, 32, 69, 120, 112, 101, 114, 105, 101, 110, 99, 101, 32, 8594, 32, 83, 107, 105, 108,
    108, 115, 10, 10, 42, 42, 87, 114, 105, 116, 105, 110, 103, 58, 42, 42, 32, 65, 99, 116,
    105, 111, 110, 32, 118, 101, 114, 98, 115, 32, 43, 32, 81, 117, 97, 110, 116, 105, 102, 105,
    101, 100, 32, 114, 101, 115, 117, 108, 116, 115, 32, 43, 32, 74, 111, 98, 32, 107, 101, 121,
    119, 111, 114, 100, 115, 10, 10, 42, 42, 65, 84, 83, 45, 102, 114, 105, 101, 110, 100, 108,
    121, 58, 42, 42, 32, 80, 68, 70, 32, 102, 111, 114, 109, 97, 116, 44, 32, 115, 105, 109,
    112, 108, 101, 32, 108, 97, 121, 111, 117, 116, 44, 32, 115, 116, 97, 110, 100, 97, 114,
    100, 32, 102, 111, 110, 116, 115, 10, 10, 42, 42, 84, 101, 115, 116, 58, 42, 42, 32, 85,
    112, 108, 111, 97, 100, 32, 116, 111, 32, 74, 111, 98, 115, 99, 97, 110, 46, 99, 111, 32,
    102, 111, 114, 32, 65, 84, 83, 32, 115, 99, 111, 114, 101, 10, 10, 87, 97, 110, 116, 32,
    104, 101, 108, 112, 32, 119, 105, 116, 104, 32, 115, 112, 101, 99, 105, 102, 105, 99, 32,
    115, 101, 99, 116, 105, 111, 110, 115, 63>>

\* english_response of the else branch (app.py lines 291-304): an f-string,
\* default_prefix + user_message + default_suffix.
default_prefix ==
  <<129302, 32, 42, 42, 71, 111, 116, 32, 105, 116, 58, 32, 34>>

default_suffix ==
  <<34, 42, 42, 10, 10, 73, 32, 104, 101, 108, 112, 32, 119, 105, 116, 104, 58, 10, 128188, 32,
    74, 111, 98, 32, 115, 101, 97, 114, 99, 104, 32, 38, 32, 99, 97, 114, 101, 101, 114, 32,
    115, 116, 114, 97, 116, 101, 103, 121, 10, 128176, 32, 83, 97, 108, 97, 114, 121, 32, 100,
    97, 116, 97, 32, 38, 32, 110, 101, 103, 111, 116, 105, 97, 116, 105, 111, 110, 32, 32, 10,
    127891, 32, 84, 101, 99, 104, 32, 115, 107, 105, 108, 108, 115, 32, 38, 32, 108, 101, 97,
    114, 110, 105, 110, 103, 10, 127919, 32, 73, 110, 116, 101, 114, 118, 105, 101, 119, 32,
    112, 114, 101, 112, 97, 114, 97, 116, 105, 111, 110, 10, 10, 42, 42, 81, 117, 105, 99, 107,
    32, 101, 120, 97, 109, 112, 108, 101, 115, 58, 42, 42, 10, 34, 83, 111, 102, 116, 119, 97,
    114, 101, 32, 101, 110, 103, 105, 110, 101, 101, 114, 32, 115, 97, 108, 97, 114, 121, 34,
    10, 34, 83, 107, 105, 108, 108, 115, 32, 102, 111, 114, 32, 65, 73, 32, 106, 111, 98, 115,
    34, 32, 32, 10, 34, 71, 111, 111, 103, 108, 101, 32, 105, 110, 116, 101, 114, 118, 105, 101,
    119, 32, 112, 114, 101, 112, 34, 10, 10, 87, 104, 97, 116, 32, 100, 111, 32, 121, 111, 117,
    32, 110, 101, 101, 100, 32, 104, 101, 108, 112, 32, 119, 105, 116, 104, 63>>
\* suggestions returned on the 'skills' branch (app.py line 322).
skills_suggestions ==
  << <<128013, 32, 80, 121, 116, 104, 111, 110, 32, 108, 101, 97, 114, 110, 105, 110, 103, 32, 114,
        111, 97, 100, 109, 97, 112>>,  \* ? Python learning roadmap
     <<129302, 32, 65, 73, 47, 77, 76, 32, 102, 117, 110, 100, 97, 109, 101, 110, 116, 97, 108, 115>>,  \* ? AI/ML fundamentals
     <<9729, 65039, 32, 67, 108, 111, 117, 100, 32, 112, 108, 97, 116, 102, 111, 114, 109, 115, 32,
        103, 117, 105, 100, 101>>,  \* ?? Cloud platforms guide
     <<128187, 32, 70, 117, 108, 108, 45, 115, 116, 97, 99, 107, 32, 100, 101, 118, 101, 108, 111,
        112, 109, 101, 110, 116>> >>  \* ? Full-stack development

\* suggestions returned on the 'salary' branch (app.py line 324).
salary_suggestions ==
  << <<128188, 32, 69, 110, 116, 114, 121, 45, 108, 101, 118, 101, 108, 32, 116, 101, 99, 104, 32,
        115, 97, 108, 97, 114, 105, 101, 115>>,  \* ? Entry-level tech salaries
     <<127970, 32, 66, 105, 103, 32, 116, 101, 99, 104, 32, 99, 111, 109, 112, 101, 110, 115, 97,
        116, 105, 111, 110>>,  \* ? Big tech compensation
     <<128205, 32, 76, 111, 99, 97, 116, 105, 111, 110, 45, 98, 97, 115, 101, 100, 32, 112, 97, 121>>,  \* ? Location-based pay
     <<128176, 32, 83, 97, 108, 97, 114, 121, 32, 110, 101, 103, 111, 116, 105, 97, 116, 105, 111,
        110, 32, 116, 105, 112, 115>> >>  \* ? Salary negotiation tips

\* suggestions returned on the 'interview' branch (app.py line 326).
interview_suggestions ==
  << <<10067, 32, 67, 111, 109, 109, 111, 110, 32, 116, 101, 99, 104, 32, 113, 117, 101, 115, 116,
        105, 111, 110, 115>>,  \* ? Common tech questions
     <<128161, 32, 83, 84, 65, 82, 32, 109, 101, 116, 104, 111, 100, 32, 101, 120, 97, 109, 112,
        108, 101, 115>>,  \* ? STAR method examples
     <<127919, 32, 83, 121, 115, 116, 101, 109, 32, 100, 101, 115, 105, 103, 110, 32, 98, 97, 115,
        105, 99, 115>>,  \* ? System design basics
     <<128084, 32, 66, 101, 104, 97, 118, 105, 111, 114, 97, 108, 32, 105, 110, 116, 101, 114, 118,
        105, 101, 119, 32, 112, 114, 101, 112>> >>  \* ? Behavioral interview prep

\* suggestions returned on the 'resume' branch (app.py line 328).
resume_suggestions ==
  << <<128196, 32, 85, 112, 108, 111, 97, 100, 32, 109, 121, 32, 114, 101, 115, 117, 109, 101, 32,
        110, 111, 119>>,  \* ? Upload my resume now
     <<10024, 32, 82, 101, 115, 117, 109, 101, 32, 102, 111, 114, 109, 97, 116, 116, 105, 110, 103,
        32, 116, 105, 112, 115>>,  \* ? Resume formatting tips
     <<127919, 32, 65, 84, 83, 32, 111, 112, 116, 105, 109, 105, 122, 97, 116, 105, 111, 110, 32,
        103, 117, 105, 100, 101>>,  \* ? ATS optimization guide
     <<128188, 32, 67, 111, 118, 101, 114, 32, 108, 101, 116, 116, 101, 114, 32, 116, 105, 112, 115>> >>  \* ? Cover letter tips

\* suggestions returned on the 'other' branch (app.py line 330).
other_suggestions ==
  << <<128188, 32, 67, 97, 114, 101, 101, 114, 32, 103, 117, 105, 100, 97, 110, 99, 101>>,  \* ? Career guidance
     <<128200, 32, 83, 107, 105, 108, 108, 32, 100, 101, 118, 101, 108, 111, 112, 109, 101, 110,
        116>>,  \* ? Skill development
     <<128176, 32, 83, 97, 108, 97, 114, 121, 32, 105, 110, 102, 111, 114, 109, 97, 116, 105, 111,
        110>>,  \* ? Salary information
     <<127908, 32, 73, 110, 116, 101, 114, 118, 105, 101, 119, 32, 112, 114, 101, 112, 97, 114, 97,
        116, 105, 111, 110>> >>  \* ? Interview preparation
\* english_response as the if/elif chain of app.py 203-304 sets it.
english_response(intent, user_message) ==
  IF intent = "greeting" THEN greeting_response
  ELSE IF intent = "salary" THEN salary_response
  ELSE IF intent = "skills" THEN skills_response
  ELSE IF intent = "interview" THEN interview_response
  ELSE IF intent = "job" THEN job_response
  ELSE IF intent = "resume" THEN resume_response
  ELSE default_prefix \o user_message \o default_suffix

\* A faulty variant, not the program: the suggestions of a request in another language are marked as that
\* language's, as a translated response is.
generate_smart_suggestions_translated(user_message, ai_response, language) ==
  LET intent == detect_intent_multilingual(user_message)
      chosen == IF intent = "skills" THEN skills_suggestions
                ELSE IF intent = "salary" THEN salary_suggestions
                ELSE IF intent = "interview" THEN interview_suggestions
                ELSE IF intent = "resume" THEN resume_suggestions
                ELSE other_suggestions
  IN IF language = "en" THEN chosen
     ELSE [i \in 1..Len(chosen) |-> <<35>> \o chosen[i]]

\* generate_smart_suggestions: it classifies the message again and reads
\* neither ai_response nor language.
generate_smart_suggestions(user_message, ai_response, language) ==
  LET intent == detect_intent_multilingual(user_message)
  IN IF intent = "skills" THEN skills_suggestions
     ELSE IF intent = "salary" THEN salary_suggestions
     ELSE IF intent = "interview" THEN interview_suggestions
     ELSE IF intent = "resume" THEN resume_suggestions
     ELSE other_suggestions

----------------------------------------------------------------------------
(* The external translation service (api.mymemory.translated.net), as      *)
(* translate_single_chunk sees it.                                         *)

\* Python's None.  A text holds code points only, so no text equals it.
None == <<-1>>

\* What the service does with one GET request.
ServiceBehaviours ==
  {"raises",             \* requests.get or response.json() raises (timeout,
                         \* connection error, a body that is not JSON)
   "http_error",         \* a status code other than 200
   "no_responseData",    \* 200, JSON without the key 'responseData'
   "no_translatedText",  \* 200, 'responseData' without the key 'translatedText'
   "translated",         \* 200, 'translatedText' is the translation
   "null_text"}          \* 200, 'translatedText' is JSON null

\* The translation the service gives for query q: the text marked with a
\* letter of the target language, so that it differs from q and from the
\* translation of any other query.
TargetMark(target) ==
  CASE target = "hi" -> 2361
    [] target = "pa" -> 2602
    [] target = "kn" -> 3221
    [] OTHER -> 35
Translation(q, target) == <<TargetMark(target)>> \o q

\* The response object of requests.get, for a service behaviour that returns one.
Reply(behaviour, q, target) ==
  [status_code |-> IF behaviour = "http_error" THEN 429 ELSE 200,
   json |->
     CASE behaviour = "no_responseData" -> [responseStatus |-> 403]
       [] behaviour = "no_translatedText" -> [responseData |-> [match |-> 0]]
       [] behaviour = "null_text" -> [responseData |-> [translatedText |-> None]]
       [] OTHER -> [responseData |-> [translatedText |-> Translation(q, target)]]]

\* The behaviour of the service at its k-th request of a call, under a script:
\* the script repeats when the call makes more requests than it is long.
BehaviourAt(script, k) == script[((k - 1) % Len(script)) + 1]

----------------------------------------------------------------------------
(* Chunked Translator: translate_single_chunk (app.py 51-71) and           *)
(* translate_text_smart (app.py 73-134).  Each returns what the function   *)
(* returns together with its exchanges with the service, in order.      *)

\* One exchange with the service (app.py 57-60): the stripped text (quoted in
\* the URL, which the service unquotes), the language pair en|target, and how
\* the service behaved.
Exchange(text, target, behaviour) ==
  [q |-> Strip(text), langpair |-> <<"en", target>>, behaviour |-> behaviour]

\* A faulty variant, not the program: the fallback returns the stripped text that was sent.
translate_single_chunk_stripped(text, target, behaviour) ==
  IF Len(Strip(text)) = 0 THEN [returns |-> text, queries |-> << >>]
  ELSE LET query == Exchange(text, target, behaviour)
           resp == Reply(behaviour, query.q, target)
       IN [queries |-> <<query>>,
           returns |->
             IF behaviour = "raises" THEN query.q
             ELSE IF resp.status_code = 200
                     /\ "responseData" \in DOMAIN resp.json
                     /\ "translatedText" \in DOMAIN resp.json.responseData
                  THEN resp.json.responseData.translatedText
                  ELSE query.q]

\* A faulty variant, not the program: a request that raises is sent once more before the fallback.
translate_single_chunk_retrying(text, target, behaviour) ==
  IF Len(Strip(text)) = 0 THEN [returns |-> text, queries |-> << >>]
  ELSE LET query == Exchange(text, target, behaviour)
           resp == Reply(behaviour, query.q, target)
       IN [queries |-> IF behaviour = "raises" THEN <<query, query>> ELSE <<query>>,
           returns |->
             IF behaviour = "raises" THEN text
             ELSE IF resp.status_code = 200
                     /\ "responseData" \in DOMAIN resp.json
                     /\ "translatedText" \in DOMAIN resp.json.responseData
                  THEN resp.json.responseData.translatedText
                  ELSE text]

translate_single_chunk(text, target, behaviour) ==
  IF Len(Strip(text)) = 0 THEN [returns |-> text, queries |-> << >>]
  ELSE LET query == Exchange(text, target, behaviour)
           resp == Reply(behaviour, query.q, target)
       IN [queries |-> <<query>>,
           returns |->
             IF behaviour = "raises" THEN text
             ELSE IF resp.status_code = 200
                     /\ "responseData" \in DOMAIN resp.json
                     /\ "translatedText" \in DOMAIN resp.json.responseData
                  THEN resp.json.responseData.translatedText
                  ELSE text]

\* len(current_chunk) for a current_chunk kept as the tuple of the units
\* (parts, sentences) concatenated into it.
RECURSIVE ChunkLen(_)
ChunkLen(units) == IF units = << >> THEN 0 ELSE Len(Head(units)) + ChunkLen(Tail(units))

\* A faulty variant, not the program: the test of the threshold leaves out the unit about to be added.
RECURSIVE Accumulate_unit_uncounted(_, _)
Accumulate_unit_uncounted(current_chunk, units) ==
  IF units = << >> THEN <<current_chunk>>
  ELSE IF ChunkLen(current_chunk) <= Threshold
       THEN Accumulate_unit_uncounted(Append(current_chunk, Head(units)), Tail(units))
       ELSE <<current_chunk>> \o Accumulate_unit_uncounted(<<Head(units)>>, Tail(units))

\* The loops of app.py 100-108 and 113-121: the values current_chunk holds each
\* time the code reaches `if current_chunk.strip(): chunks.append(current_chunk)`.
RECURSIVE Accumulate(_, _)
Accumulate(current_chunk, units) ==
  IF units = << >> THEN <<current_chunk>>
  ELSE IF ChunkLen(current_chunk) + Len(Head(units)) <= Threshold
       THEN Accumulate(Append(current_chunk, Head(units)), Tail(units))
       ELSE <<current_chunk>> \o Accumulate(<<Head(units)>>, Tail(units))

\* app.py 98-99, 106: parts[0], then '•' + part for each later part.
BulletUnits(paragraph) ==
  LET parts == Split(paragraph, <<Bullet>>)
  IN [i \in 1..Len(parts) |-> IF i = 1 THEN parts[1] ELSE <<Bullet>> \o parts[i]]

\* app.py 111
SentenceUnits(paragraph) == Split(ReplacePeriodSpace(paragraph), <<Pipe>>)

\* The chunks one paragraph goes through, each as the tuple of its units
\* (app.py 93-121, before the strip() guards).
ParagraphFlushes(paragraph) ==
  IF Len(paragraph) <= Threshold THEN << <<paragraph>> >>
  ELSE IF \E i \in 1..Len(paragraph) : paragraph[i] = Bullet
       THEN LET units == BulletUnits(paragraph)
            IN Accumulate(<<units[1]>>, Tail(units))
       ELSE Accumulate(<< >>, SentenceUnits(paragraph))

IsBlank(s) == Len(Strip(s)) = 0

\* The chunks appended to `chunks` for one paragraph (app.py 93-121): a short
\* paragraph always, a flushed current_chunk only `if current_chunk.strip()`.
ParagraphChunks(paragraph) ==
  IF Len(paragraph) <= Threshold THEN ParagraphFlushes(paragraph)
  ELSE SelectSeq(ParagraphFlushes(paragraph), LAMBDA units : ~IsBlank(Concat(units)))

\* `chunks` after the loop of app.py 92-121, each chunk as the tuple of its units.
RECURSIVE ChunksOf(_)
ChunksOf(paragraphs) ==
  IF paragraphs = << >> THEN << >>
  ELSE ParagraphChunks(Head(paragraphs)) \o ChunksOf(Tail(paragraphs))

UnitChunks(text) == ChunksOf(Split(text, <<NL, NL>>))

\* `chunks` as the code holds it: strings.
Chunks(text) == LET cs == UnitChunks(text) IN [i \in 1..Len(cs) |-> Concat(cs[i])]

\* The loop of app.py 124-128 over chunks[i..]: the k-th request of the call
\* is answered by the script's k-th behaviour.
RECURSIVE TranslateChunks(_, _, _, _)
TranslateChunks(chunks, target, script, k) ==
  IF chunks = << >> THEN [parts |-> << >>, queries |-> << >>]
  ELSE IF IsBlank(Head(chunks)) THEN TranslateChunks(Tail(chunks), target, script, k)
  ELSE LET one == translate_single_chunk(Head(chunks), target, BehaviourAt(script, k))
           rest == TranslateChunks(Tail(chunks), target, script, k + 1)
       IN [parts |-> <<one.returns>> \o rest.parts,
           queries |-> one.queries \o rest.queries]

\* lang_map.get(target_language, 'en') (app.py 79-80)
lang_map(target_language) ==
  IF target_language \in {"hi", "pa", "kn", "en"} THEN target_language ELSE "en"

\* A faulty variant, not the program: only a blank text is returned untranslated.
returns_unchanged_blank_only(text, target_language) == IsBlank(text)

\* The test of app.py 75.
returns_unchanged(text, target_language) == target_language = "en" \/ IsBlank(text)

translate_text_smart(text, target_language, script) ==
  IF returns_unchanged(text, target_language) THEN [returns |-> text, queries |-> << >>]
  ELSE LET target == lang_map(target_language)
       IN IF Len(text) <= Threshold
          THEN translate_single_chunk(text, target, BehaviourAt(script, 1))
          ELSE LET done == TranslateChunks(Chunks(text), target, script, 1)
               IN [queries |-> done.queries,
                   returns |->
                     \* '\n\n'.join raises TypeError on a None item; the except
                     \* of app.py 132-134 then returns text.
                     IF \E i \in 1..Len(done.parts) : done.parts[i] = None
                     THEN text
                     ELSE Join(<<NL, NL>>, done.parts)]

----------------------------------------------------------------------------
(* Response Assembler and chat endpoint: get_ai_response (app.py 192-316)  *)
(* and chat (app.py 344-390).                                              *)

get_ai_response(user_message, language, script) ==
  LET intent == detect_intent_multilingual(user_message)
      english == english_response(intent, user_message)
  IN IF language # "en"
     THEN translate_text_smart(english, language, script)
     ELSE [returns |-> english, queries |-> << >>]

\* ' '.join(user_message.split()) (app.py 360)
CleanUp(user_message) == Join(<<Space>>, SplitWhitespace(user_message))

\* What the write of app.py 368-378 does to the table.
DbOutcomes ==
  {"ok",             \* the row is inserted and committed
   "no_connection",  \* get_db_connection returned None (app.py 29-31)
   "insert_error"}   \* execute or commit raises; the except of app.py 377 swallows it

\* chat() up to the write (app.py 346-366) on the JSON body {message,
\* language}: how the handler goes on, and its exchanges with the service.
chat_answer(message, language, script) ==
  LET stripped == Strip(message)
  IN IF Len(stripped) = 0
     THEN [status |-> 400, queries |-> << >>]
     ELSE LET user_message == CleanUp(stripped)
              bot == get_ai_response(user_message, language, script)
              suggestions == generate_smart_suggestions(user_message, bot.returns, language)
          IN IF bot.returns = None
             \* len(bot_response) raises TypeError (app.py 366): the except of
             \* app.py 388-390 answers 500 before the table is touched.
             THEN [status |-> 500, queries |-> bot.queries]
             ELSE [status |-> 200, queries |-> bot.queries,
                   user_message |-> user_message,
                   bot_response |-> bot.returns,
                   suggestions |-> suggestions]

\* A faulty variant, not the program: the rejection of an empty message goes out with Flask's default status.
chat_response_default_status(answer, language, now) ==
  IF answer.status = 400
  THEN [status |-> 200, body |-> [success |-> FALSE, error |-> "Empty message received"]]
  ELSE IF answer.status = 500
  THEN [status |-> 500,
        body |-> [success |-> FALSE, error |-> "object of type 'NoneType' has no len()"]]
  ELSE [status |-> 200,
        body |-> [success |-> TRUE,
                  response |-> answer.bot_response,
                  suggestions |-> answer.suggestions,
                  language |-> language,
                  timestamp |-> now]]

\* The responses chat() returns (app.py 357, 380-390) for an answer, at clock
\* reading now.
chat_response(answer, language, now) ==
  IF answer.status = 400
  THEN [status |-> 400, body |-> [success |-> FALSE, error |-> "Empty message received"]]
  ELSE IF answer.status = 500
  THEN [status |-> 500,
        body |-> [success |-> FALSE, error |-> "object of type 'NoneType' has no len()"]]
  ELSE [status |-> 200,
        body |-> [success |-> TRUE,
                  response |-> answer.bot_response,
                  suggestions |-> answer.suggestions,
                  language |-> language,
                  timestamp |-> now]]

\* A faulty variant, not the program: the write replaces the table's rows by the new row.
chat_write_replacing(answer, db_outcome, table, now) ==
  IF answer.status = 200 /\ db_outcome = "ok"
  THEN <<[user_message |-> answer.user_message,
          bot_response |-> answer.bot_response,
          timestamp |-> now]>>
  ELSE table

\* The write of chat() (app.py 368-378) for an answer: the table afterwards,
\* the write ending as db_outcome at clock reading now.
chat_write(answer, db_outcome, table, now) ==
  IF answer.status = 200 /\ db_outcome = "ok"
  THEN Append(table, [user_message |-> answer.user_message,
                      bot_response |-> answer.bot_response,
                      timestamp |-> now])
  ELSE table

----------------------------------------------------------------------------
(* Bounds and the inputs drawn within them.                                *)

\* Chat requests handled in one behaviour.
MaxRequests == 2
\* Length of the longest script of service behaviours a chat request meets.
MaxChatScript == 1
\* Length of the longest script a direct translate_text_smart call meets.
MaxScript == 2
\* Units (runs of text between separators) in a text given to translate_text_smart.
MaxUnits == 3
\* Tokens in a message given to detect_intent_multilingual.
MaxTokens == 3

Run(c, n) == [i \in 1..n |-> c]

\* Scripts of service behaviours: those of length n, and of length 1..n.
RECURSIVE ScriptsOfLen(_)
ScriptsOfLen(n) ==
  IF n = 0 THEN {<< >>}
  ELSE {Append(script, b) : script \in ScriptsOfLen(n - 1), b \in ServiceBehaviours}
Scripts(n) == UNION {ScriptsOfLen(k) : k \in 1..n}

Languages == {"en", "hi"}

\* Texts for translate_text_smart: units joined by separators.  Two 120-letter
\* units and a separator fit the threshold, three do not; a 251-letter unit
\* exceeds it alone.
TextUnits == {<<Space>>, Run(97, 120), Run(97, 251)}
Separators == {<<Bullet>>, <<Period, Space>>, <<NL, NL>>, <<Pipe>>}

RECURSIVE Interleave(_, _)
Interleave(units, seps) ==
  IF Len(units) = 1 THEN units[1]
  ELSE units[1] \o seps[1] \o Interleave(Tail(units), Tail(seps))

Texts ==
  {<< >>} \cup
  UNION {{Interleave(us, ss) : us \in [1..n -> TextUnits], ss \in [1..(n - 1) -> Separators]}
         : n \in 1..MaxUnits}

\* Messages for detect_intent_multilingual: one to MaxTokens tokens.
Tokens ==
  { <<72, 105>>,  \* 'Hi'
    <<115, 104, 105, 112>>,  \* 'ship'
    <<80, 65, 89>>,  \* 'PAY'
    <<115, 107, 105, 108, 108>>,  \* 'skill'
    <<116, 105, 112, 115>>,  \* 'tips'
    <<106, 111, 98>>,  \* 'job'
    <<99, 118>>,  \* 'cv'
    <<32>>,  \* ' '
    <<120>>,  \* 'x'
    <<2357, 2375, 2340, 2344>>,  \* Hindi 'vetan' (salary_words)
    <<2352, 2367, 2332, 2381, 2351, 2370, 2350, 2375>> }  \* Hindi 'rijyume' (resume_words)

Messages ==
  UNION {{Concat(ts) : ts \in [1..n -> Tokens]} : n \in 1..MaxTokens}

\* Bodies for the chat endpoint.
ShortMessages ==
  { << >>,  \* empty
    <<32, 10, 9, 32>>,  \* whitespace only
    <<104, 105>>,  \* 'hi'
    <<32, 32, 83, 111, 102, 116, 119, 97, 114, 101, 32, 32, 32, 101, 110, 103, 105, 110, 101, 101,
    114, 9, 115, 97, 108, 97, 114, 121, 32>>,  \* needs clean-up
    <<115, 107, 105, 108, 108, 115>>,  \* 'skills'
    <<105, 110, 116, 101, 114, 118, 105, 101, 119, 32, 116, 105, 112, 115>>,  \* 'interview tips'
    <<106, 111, 98>>,  \* 'job'
    <<2352, 2367, 2332, 2381, 2351, 2370, 2350, 2375>>,  \* Hindi 'rijyume' (resume)
    <<120, 121, 122>>,  \* 'xyz'
    \* 264 characters without a keyword: the first paragraph of the default
    \* response exceeds the threshold and holds two '. '.
    Run(122, 120) \o <<Period, Space>> \o Run(122, 120) \o <<Period, Space>> \o Run(122, 20) }

ChatMessages == ShortMessages

ChatLanguages == {"en", "hi", "fr"}

----------------------------------------------------------------------------
(* The state machine.                                                      *)

NoCall == [call |-> "none"]

Init ==
  /\ chats = << >>
  /\ handled = 0
  /\ request = NoCall
  /\ response = NoCall
  /\ sent = << >>
  /\ db = "none"

\* chat_answer is pure: its values on the bodies and scripts drawn, computed once.
Answers ==
  [message \in ChatMessages, language \in ChatLanguages, script \in Scripts(MaxChatScript)
     |-> chat_answer(message, language, script)]

\* POST /api/chat with body {message, language}; the service follows script
\* and the write ends as db_outcome.
Chat(message, language, script, db_outcome) ==
  /\ handled < MaxRequests
  /\ LET answer == Answers[message, language, script]
     IN /\ response' = chat_response(answer, language, handled + 1)
        /\ chats' = chat_write(answer, db_outcome, chats, handled + 1)
        /\ sent' = answer.queries
        /\ db' = IF answer.status = 200 THEN db_outcome ELSE "none"
  /\ request' = [call |-> "chat", message |-> message, language |-> language]
  /\ handled' = handled + 1

\* The arguments of a direct call translate_text_smart(text, target_language).
InitTranslate ==
  /\ request \in {[call |-> "translate_text_smart", text |-> text,
                   target_language |-> target_language] :
                    text \in Texts, target_language \in Languages}
  /\ chats = << >>
  /\ handled = 0
  /\ response = NoCall
  /\ sent = << >>
  /\ db = "none"

\* The call runs to its return; the service follows script.
Translate(script) ==
  /\ handled = 0
  /\ LET r == translate_text_smart(request.text, request.target_language, script)
     IN /\ response' = [returns |-> r.returns]
        /\ sent' = r.queries
  /\ handled' = 1
  /\ UNCHANGED <<request, chats, db>>

\* The argument of a direct call detect_intent_multilingual(user_message).
InitIntent ==
  /\ request \in {[call |-> "detect_intent_multilingual", user_message |-> user_message] :
                    user_message \in Messages}
  /\ chats = << >>
  /\ handled = 0
  /\ response = NoCall
  /\ sent = << >>
  /\ db = "none"

\* The call runs to its return.
Classify ==
  /\ handled = 0
  /\ response' = [returns |-> detect_intent_multilingual(request.user_message)]
  /\ handled' = 1
  /\ UNCHANGED <<request, chats, sent, db>>

Next ==
  /\ handled < MaxRequests
  /\ \E message \in ChatMessages, language \in ChatLanguages,
     script \in Scripts(MaxChatScript), db_outcome \in DbOutcomes :
       Chat(message, language, script, db_outcome)

NextTranslate ==
  /\ handled = 0
  /\ \E script \in Scripts(MaxScript) : Translate(script)

NextIntent == Classify

\* The chat endpoint.
Spec == Init /\ [][Next]_vars
\* translate_text_smart called on its own.
SpecTranslate == InitTranslate /\ [][NextTranslate]_vars
\* detect_intent_multilingual called on its own.
SpecIntent == InitIntent /\ [][NextIntent]_vars
----------------------------------------------------------------------------
(* The properties checked.  The definitions below state them; they are not *)
(* part of the model of the program.                                       *)

Range(seq) == {seq[i] : i \in 1..Len(seq)}

AllWhitespace(s) == \A i \in 1..Len(s) : s[i] \in Whitespace

\* A call has returned.
TranslateCalled == request.call = "translate_text_smart" /\ response # NoCall
ClassifyCalled == request.call = "detect_intent_multilingual" /\ response # NoCall
ChatCalled == request.call = "chat"

\* The keyword lists in the order of priority the specification gives.
Priority == <<"greeting", "salary", "skills", "interview", "job", "resume">>
KeywordSet(intent) ==
  CASE intent = "greeting" -> Range(greeting_words)
    [] intent = "salary" -> Range(salary_words)
    [] intent = "skills" -> Range(skills_words)
    [] intent = "interview" -> Range(interview_words)
    [] intent = "job" -> Range(job_words)
    [] intent = "resume" -> Range(resume_words)
Hit(intent, message) == \E word \in KeywordSet(intent) : Contains(Lower(message), word)

\* C1: detect_intent_multilingual returns exactly one intent of the closed set:
\* the first intent in the order greeting > salary > skills > interview > job >
\* resume one of whose keywords occurs in the lower-cased message, and default
\* when no keyword of any list occurs.
C1_FirstMatchWins ==
  ClassifyCalled =>
    LET message == request.user_message
        intent == response.returns
    IN /\ intent \in Intents
       /\ \A k \in 1..Len(Priority) :
            intent = Priority[k]
              <=> (Hit(Priority[k], message) /\ \A j \in 1..(k - 1) : ~Hit(Priority[j], message))
       /\ intent = "default" <=> \A k \in 1..Len(Priority) : ~Hit(Priority[k], message)

\* A message with a greeting keyword ('hi', after lower-casing) and a salary
\* keyword ('pay') was classified greeting.
C1_Witness ==
  /\ ClassifyCalled
  /\ Contains(request.user_message, <<72, 105>>)
  /\ Contains(request.user_message, <<80, 65, 89>>)
  /\ response.returns = "greeting"

\* The ways a request to the service fails that the fallback of
\* translate_single_chunk catches: a non-200 status, an exception (timeout,
\* undecodable payload), a missing field.
FailedBehaviours == {"raises", "http_error", "no_responseData", "no_translatedText"}
EveryCallFailed == \A i \in 1..Len(sent) : sent[i].behaviour \in FailedBehaviours

\* C2 as stated: when every call to the service fails, translate_text_smart
\* returns the text unchanged, for every text and every language but 'en'.
C2_FailingServiceReturnsText ==
  (TranslateCalled /\ request.target_language # "en" /\ EveryCallFailed)
    => response.returns = request.text

\* C2 as amended: when every call to the service fails, translate_text_smart
\* returns the text unchanged if the text has at most 250 characters, or if
\* each of its blank-line-separated paragraphs has at most 250 characters
\* and is not whitespace only.
C2_FailingServiceReturnsShortParagraphs ==
  (/\ TranslateCalled
   /\ request.target_language # "en"
   /\ EveryCallFailed
   /\ \/ Len(request.text) <= Threshold
      \/ \A p \in Range(Split(request.text, <<NL, NL>>)) :
           Len(p) <= Threshold /\ ~AllWhitespace(p))
    => response.returns = request.text

\* A text of more than 250 characters went out as several chunks, every call
\* failed, and the text came back unchanged.
C2_Witness ==
  /\ TranslateCalled
  /\ request.target_language # "en"
  /\ Len(request.text) > Threshold
  /\ Len(sent) >= 2
  /\ EveryCallFailed
  /\ response.returns = request.text

\* Whether unit u cannot be split further in paragraph p: in a paragraph with
\* bullets it holds no bullet after its first character, in one without it
\* holds no '|' and no '. '.
Indivisible(u, p) ==
  IF \E i \in 1..Len(p) : p[i] = Bullet
  THEN \A i \in 2..Len(u) : u[i] # Bullet
  ELSE \A i \in 1..Len(u) :
         u[i] # Pipe /\ ~(u[i] = Period /\ i < Len(u) /\ u[i + 1] = Space)

\* C3: for a text of more than 250 characters, a chunk longer than 250
\* consists of exactly one indivisible unit (a leading segment or bullet part
\* with its bullet, or a sentence), so no chunk longer than 250 holds two
\* units; and every text sent to the service is such a chunk, stripped.
C3_ChunkingInvariant ==
  (TranslateCalled /\ Len(request.text) > Threshold) =>
    /\ \A p \in Range(Split(request.text, <<NL, NL>>)) :
         \A c \in Range(ParagraphChunks(p)) :
           Len(Concat(c)) > Threshold => (Len(c) = 1 /\ Indivisible(c[1], p))
    /\ \A i \in 1..Len(sent) :
         \E c \in Range(UnitChunks(request.text)) : sent[i].q = Strip(Concat(c))

\* A chunk of more than 250 characters was sent, beside another chunk.
C3_Witness ==
  /\ TranslateCalled
  /\ Len(sent) >= 2
  /\ \E i \in 1..Len(sent) : Len(sent[i].q) > Threshold

\* C4: translate_text_smart(text, 'en') returns text for every text, and for
\* every language an empty or whitespace-only text is returned unchanged; in
\* both cases no request goes to the service.
C4_IdentityWithoutCall ==
  (TranslateCalled /\ (request.target_language = "en" \/ AllWhitespace(request.text)))
    => (response.returns = request.text /\ sent = << >>)

\* A text of more than 250 characters was returned unchanged for 'en' without
\* a request.
C4_Witness ==
  /\ TranslateCalled
  /\ request.target_language = "en"
  /\ Len(request.text) > Threshold
  /\ ~AllWhitespace(request.text)
  /\ response.returns = request.text
  /\ sent = << >>

\* A chat request that was answered, the intent of its message and the
\* message as the handler processes it (stripped, whitespace collapsed).
Answered == ChatCalled /\ response.status = 200
Classified == [message \in ChatMessages |-> detect_intent_multilingual(CleanUp(Strip(message)))]
Cleaned == [message \in ChatMessages |-> CleanUp(Strip(message))]
IntentOf(message) == Classified[message]

\* C5: the suggestions a chat request returns are exactly four, and are
\* fixed by the intent of the message alone: two requests of the same intent
\* return the same suggestions whatever their languages and whatever the
\* service did (so no translation touches them); and the English response of
\* the intent is not empty.
C5_SuggestionsFixedByIntent ==
  /\ [](Answered =>
          /\ Len(response.body.suggestions) = 4
          /\ Len(english_response(IntentOf(request.message), Cleaned[request.message])) > 0)
  /\ [][(Answered /\ Answered' /\ IntentOf(request.message) = IntentOf(request.message'))
          => response.body.suggestions' = response.body.suggestions]_vars

\* A request in Hindi whose response was translated carries suggestions.
C5_Witness ==
  /\ Answered
  /\ request.language = "hi"
  /\ \E i \in 1..Len(sent) : sent[i].behaviour = "translated"
  /\ IntentOf(request.message) = "salary"
  /\ Len(response.body.suggestions) = 4

\* C6: an empty or whitespace-only message is rejected with status 400 and
\* {success: false, error: "Empty message received"} and nothing else: the
\* body holds no other field, no request goes to the service and the table
\* stays as it was.
C6_EmptyMessageRejected ==
  /\ []((ChatCalled /\ AllWhitespace(request.message)) =>
          /\ response.status = 400
          /\ response.body = [success |-> FALSE, error |-> "Empty message received"]
          /\ sent = << >>)
  /\ [][(handled' = handled + 1 /\ AllWhitespace(request.message'))
          => chats' = chats]_vars

\* A whitespace-only message was rejected while the table held a row.
C6_Witness ==
  /\ ChatCalled
  /\ Len(request.message) > 0
  /\ AllWhitespace(request.message)
  /\ response.status = 400
  /\ Len(chats) = 1

\* C7 as stated: for a text of more than 250 characters, whatever each call
\* to the service does, the result is the non-blank chunks in order joined by
\* a blank line, each chunk whose call returned a translation replaced by it
\* and every other chunk left as its original text.
C7_DegradesChunkByChunk ==
  (/\ TranslateCalled
   /\ request.target_language # "en"
   /\ ~AllWhitespace(request.text)
   /\ Len(request.text) > Threshold)
    => LET chunks == SelectSeq(Chunks(request.text), LAMBDA c : ~AllWhitespace(c))
       IN /\ Len(sent) = Len(chunks)
          /\ response.returns =
               Join(<<NL, NL>>,
                    [i \in 1..Len(chunks) |->
                       IF sent[i].behaviour = "translated"
                       THEN Translation(sent[i].q, sent[i].langpair[2])
                       ELSE chunks[i]])

\* C8: the table only grows, by at most one row per request: the row of an
\* accepted request holds the message with its whitespace collapsed and the
\* text returned to the caller; a rejected request adds none.  When the write
\* fails the caller receives the success response a request with the same
\* body and the same service behaviour receives: the same text and
\* suggestions.
C8_LogAppendOnly ==
  /\ [][handled' = handled + 1 =>
          \/ chats' = chats
          \/ /\ Answered'
             /\ chats' = Append(chats,
                                [user_message |-> Cleaned[request.message'],
                                 bot_response |-> response.body.response',
                                 timestamp |-> handled'])]_vars
  /\ []((ChatCalled /\ db \in {"no_connection", "insert_error"}) => Answered)
  /\ [][(Answered /\ request' = request /\ sent' = sent)
          => /\ Answered'
             /\ response.body.response' = response.body.response
             /\ response.body.suggestions' = response.body.suggestions]_vars

\* The second request's write failed after the first one's row was written,
\* and the caller was answered.
C8_Witness ==
  /\ Answered
  /\ handled = 2
  /\ Len(chats) = 1
  /\ db = "insert_error"
  /\ chats[1].user_message # request.message

\* C9: the service is called once per chunk and never again: one request
\* for a non-blank text of at most 250 characters, and otherwise one request
\* per non-blank chunk, in order, whether the request succeeds or fails.
C9_NoRetry ==
  (TranslateCalled /\ request.target_language # "en" /\ ~AllWhitespace(request.text)) =>
    LET chunks == IF Len(request.text) <= Threshold THEN <<request.text>>
                  ELSE SelectSeq(Chunks(request.text), LAMBDA c : ~AllWhitespace(c))
    IN /\ Len(sent) = Len(chunks)
       /\ \A i \in 1..Len(chunks) : sent[i].q = Strip(chunks[i])

\* Several chunks were sent, one of them met a failing service.
C9_Witness ==
  /\ TranslateCalled
  /\ Len(request.text) > Threshold
  /\ Len(sent) >= 2
  /\ \E i \in 1..Len(sent) : sent[i].behaviour \in FailedBehaviours

\* C10 as stated: for every paragraph of more than 250 characters, the
\* chunks made of it, those dropped as whitespace-only included, concatenate
\* to the paragraph character for character.
C10_ChunksConcatenateToParagraph ==
  TranslateCalled =>
    \A p \in Range(Split(request.text, <<NL, NL>>)) :
      Len(p) > Threshold =>
        Concat([k \in 1..Len(ParagraphFlushes(p)) |-> Concat(ParagraphFlushes(p)[k])]) = p

============================================================================
